---- MODULE Spec2Model ----
(***************************************************************************)
(* Model of the shed build script (build.rs): the build orchestrator       *)
(* `main`, the version key it publishes as DEMON_VERSION, and the shell    *)
(* completion files it writes into OUT_DIR in release builds.              *)
(*                                                                         *)
(* One behaviour is a sequence of invocations of `main` (one process per   *)
(* build) in one fixed build environment; the file system persists from    *)
(* one invocation to the next, everything else is per invocation.          *)
(***************************************************************************)
EXTENDS Integers, Sequences, FiniteSets, TLC

(* ----------------------------- bounds --------------------------------- *)

\* Number of invocations of main in one behaviour.
MaxRuns == 3

(* ------------------------- the build environment ----------------------- *)

\* std::env::var answers Ok(string), Err(NotPresent) or Err(NotUnicode).
NotPresent == <<"Err", "NotPresent">>
NotUnicode == <<"Err", "NotUnicode">>
OkVar(s) == <<"Ok", s>>

\* Values of PROFILE the model draws from.
ProfileValues ==
  {NotPresent, NotUnicode, OkVar("release"), OkVar("Release"), OkVar("debug")}

\* std::env::var_os answers None or Some(path).
None == <<"None">>
Some(x) == <<"Some", x>>
OutDirValues == {None, Some("/tmp/out")}

\* CARGO_PKG_VERSION, the declared version of the package.
DeclaredVersions == {"1.2.3", "0.1.0"}

\* State of the version-control repository at the build's working directory.
RepoStates ==
  { [kind |-> "none"], [kind |-> "failed"],
    [kind |-> "clean", id |-> "abc123d"],
    [kind |-> "dirty", id |-> "abc123d"] }

\* The three generators main passes to generate_to, in source order.
Bash == "Bash"
Zsh == "Zsh"
PowerShell == "PowerShell"
Dialects == <<Bash, Zsh, PowerShell>>

(* ------------------------------ state ---------------------------------- *)

VARIABLES
  profile,      \* environment: PROFILE
  out_dir,      \* environment: OUT_DIR
  declared,     \* environment: CARGO_PKG_VERSION
  repo,         \* the repository state
  pc,           \* the statement of main the invocation is at
  result,       \* how the invocation ended: Running, Ok, Err(kind), Panic
  o,            \* main's local `o`
  c,            \* main's local `c`: (cli, bin name, out dir)
  stdout,       \* lines this invocation printed for cargo
  trace,        \* calls this invocation made, in order
  written,      \* paths generate_to returned Ok for, in order
  fs,           \* the file system: path -> content
  run,          \* number of the current invocation
  hist          \* one record per finished earlier invocation

vars ==
  <<profile, out_dir, declared, repo, pc, result, o, c, stdout, trace,
    written, fs, run, hist>>

env == <<profile, out_dir, declared, repo>>

Running == <<"Running">>
Ok == <<"Ok">>
Err(kind) == <<"Err", kind>>
Panic == <<"Panic">>

(* --------------------------- pure functions ---------------------------- *)

\* Version Resolver: the declared version, followed by the revision marker
\* (and a dirty suffix) when the repository lookup succeeds.
resolve_version(declared_version, r) ==
  CASE r.kind = "clean" -> declared_version \o "-" \o r.id
    [] r.kind = "dirty" -> declared_version \o "-" \o r.id \o "+"
    [] OTHER -> declared_version

\* The directive that makes the build run the script again when its
\* trigger file changes.
RerunDirective == <<"cargo:rerun-if-changed", "build.rs">>

\* The lines the resolver prints for the build: the version key, then the
\* build dependency on the orchestrator's trigger.
generate_cargo_keys(declared_version, r) ==
  << <<"cargo:rustc-env=DEMON_VERSION", resolve_version(declared_version, r)>>,
     RerunDirective >>

\* CLI Description Builder (src/cli.rs, included by build.rs): a constant
\* tree whose root carries the program name.
build_cli ==
  [name |-> "shed", flags |-> {"--help", "--version"}, subcommands |-> <<>>]

\* The name of the file a generator writes for a program name.
file_name(g, bin) ==
  CASE g = Bash -> bin \o ".bash"
    [] g = Zsh -> "_" \o bin
    [] g = PowerShell -> "_" \o bin \o ".ps1"

\* The script a generator renders: a function of its inputs and nothing else.
render(g, cli, bin) == <<g, bin, cli>>

\* What is left of a script whose writing failed part way.
truncated(content) == <<"truncated", content>>

\* How one generate_to call can end: the script written in full, the file
\* not created, or the file created and the writing failed.
EmitOutcomes == {"ok", "create_failed", "write_failed"}

\* A script left in OUT_DIR by an earlier version of the build.
StaleScript == <<"stale">>

\* The file system after `content` is written to `path` (create or truncate).
write_file(f, path, content) ==
  [p \in DOMAIN f \cup {path} |-> IF p = path THEN content ELSE f[p]]

Count(s, e) == Cardinality({i \in 1..Len(s) : s[i] = e})

\* The file systems a first invocation can find: OUT_DIR empty, or holding
\* a stale Bash script.
InitialFiles ==
  { [p \in {} |-> StaleScript],
    [p \in {<<"/tmp/out", file_name(Bash, "shed")>>} |-> StaleScript] }

(* ------------------------------ Init ----------------------------------- *)

Init ==
  /\ profile \in ProfileValues
  /\ out_dir \in OutDirValues
  /\ declared \in DeclaredVersions
  /\ repo \in RepoStates
  /\ pc = "generate_cargo_keys"
  /\ result = Running
  /\ o = None
  /\ c = None
  /\ stdout = <<>>
  /\ trace = <<>>
  /\ written = <<>>
  /\ fs \in InitialFiles
  /\ run = 1
  /\ hist = <<>>

(* ------------------------ the statements of main ----------------------- *)

\* Faulty variant: the call to the resolver is left out.
GenerateCargoKeys_Omitted ==
  /\ pc = "generate_cargo_keys"
  /\ pc' = "profile"
  /\ UNCHANGED <<env, result, o, c, stdout, trace, written, fs, run, hist>>

\* Faulty variant: the resolver's lookup failure is returned from main as an error.
GenerateCargoKeys_Propagate ==
  /\ pc = "generate_cargo_keys"
  /\ trace' = Append(trace, <<"generate_cargo_keys">>)
  /\ IF repo.kind \in {"none", "failed"}
       THEN /\ result' = Err("VersionResolution")
            /\ pc' = "done"
            /\ stdout' = stdout
       ELSE /\ result' = result
            /\ pc' = "profile"
            /\ stdout' = stdout \o generate_cargo_keys(declared, repo)
  /\ UNCHANGED <<env, o, c, written, fs, run, hist>>

\* build.rs:21  generate_cargo_keys();
GenerateCargoKeys ==
  /\ pc = "generate_cargo_keys"
  /\ stdout' = stdout \o generate_cargo_keys(declared, repo)
  /\ trace' = Append(trace, <<"generate_cargo_keys">>)
  /\ pc' = "profile"
  /\ UNCHANGED <<env, result, o, c, written, fs, run, hist>>

\* Faulty variant: the comparison with "release" ignores case.
ReadProfile_IgnoreCase ==
  /\ pc = "profile"
  /\ trace' = Append(trace, <<"var", "PROFILE">>)
  /\ IF profile[1] = "Err"
       THEN /\ result' = Err("Environment")
            /\ pc' = "done"
       ELSE /\ result' = result
            /\ pc' = IF profile[2] \in {"release", "Release"}
                       THEN "out_dir" ELSE "println"
  /\ UNCHANGED <<env, o, c, stdout, written, fs, run, hist>>

\* Faulty variant: an unreadable PROFILE is taken as the empty string.
ReadProfile_Default ==
  /\ pc = "profile"
  /\ trace' = Append(trace, <<"var", "PROFILE">>)
  /\ result' = result
  /\ pc' = IF profile[1] = "Ok" /\ profile[2] = "release"
             THEN "out_dir" ELSE "println"
  /\ UNCHANGED <<env, o, c, stdout, written, fs, run, hist>>

\* build.rs:23  if env::var("PROFILE")?.eq("release") {
ReadProfile ==
  /\ pc = "profile"
  /\ trace' = Append(trace, <<"var", "PROFILE">>)
  /\ IF profile[1] = "Err"
       THEN /\ result' = Err("Environment")
            /\ pc' = "done"
       ELSE /\ result' = result
            /\ pc' = IF profile[2] = "release" THEN "out_dir" ELSE "println"
  /\ UNCHANGED <<env, o, c, stdout, written, fs, run, hist>>

\* build.rs:24  let o = env::var_os("OUT_DIR").unwrap();
ReadOutDir ==
  /\ pc = "out_dir"
  /\ trace' = Append(trace, <<"var_os", "OUT_DIR">>)
  /\ IF out_dir = None
       THEN /\ result' = Panic
            /\ pc' = "done"
            /\ o' = o
       ELSE /\ result' = result
            /\ pc' = "build_cli"
            /\ o' = out_dir
  /\ UNCHANGED <<env, c, stdout, written, fs, run, hist>>

\* Faulty variant: the program name handed to the generators differs from one
\* invocation to the next.
BuildCli_PerProcessName ==
  /\ pc = "build_cli"
  /\ trace' = Append(trace, <<"build_cli">>)
  /\ c' = Some(<<build_cli, IF run = 1 THEN "shed" ELSE "shed-2", o[2]>>)
  /\ pc' = "bash"
  /\ UNCHANGED <<env, result, o, stdout, written, fs, run, hist>>

\* build.rs:25  let c = (&mut build_cli(), "shed", &o);
BuildCli ==
  /\ pc = "build_cli"
  /\ trace' = Append(trace, <<"build_cli">>)
  /\ c' = Some(<<build_cli, "shed", o[2]>>)
  /\ pc' = "bash"
  /\ UNCHANGED <<env, result, o, stdout, written, fs, run, hist>>

\* generate_to(g, c.0, c.1, c.2)?;  on either failure generate_to returns
\* Err and `?` returns it from main; `written` takes the path only when
\* generate_to returns Ok(path).
GenerateTo(g, next, outcome) ==
  LET cli == c[2][1]
      bin == c[2][2]
      dir == c[2][3]
      path == <<dir, file_name(g, bin)>>
      script == render(g, cli, bin)
  IN /\ trace' = Append(trace, <<"generate_to", g, outcome = "ok">>)
     /\ fs' = CASE outcome = "ok" -> write_file(fs, path, script)
                [] outcome = "write_failed" ->
                     write_file(fs, path, truncated(script))
                [] OTHER -> fs
     /\ IF outcome = "ok"
          THEN /\ written' = Append(written, path)
               /\ result' = result
               /\ pc' = next
          ELSE /\ written' = written
               /\ result' = Err("Emission")
               /\ pc' = "done"
     /\ UNCHANGED <<env, o, c, stdout, run, hist>>

\* The statement without its `?`: a failure is dropped and main goes on.
GenerateToUnchecked(g, next, outcome) ==
  IF outcome = "ok"
    THEN GenerateTo(g, next, "ok")
    ELSE /\ trace' = Append(trace, <<"generate_to", g, FALSE>>)
         /\ pc' = next
         /\ UNCHANGED <<env, result, o, c, stdout, written, fs, run, hist>>

\* Faulty variant: a failed Bash emission is tried once more.
EmitBash_Retry ==
  /\ pc = "bash"
  /\ \E outcome \in EmitOutcomes :
       IF outcome # "ok" /\ Count(trace, <<"generate_to", Bash, FALSE>>) = 0
         THEN /\ trace' = Append(trace, <<"generate_to", Bash, FALSE>>)
              /\ UNCHANGED <<env, pc, result, o, c, stdout, written, fs, run,
                             hist>>
         ELSE GenerateTo(Bash, "zsh", outcome)

\* build.rs:26  generate_to(Bash, c.0, c.1, c.2)?;
EmitBash ==
  /\ pc = "bash"
  /\ \E outcome \in EmitOutcomes : GenerateTo(Bash, "zsh", outcome)

\* Faulty variant: the Zsh emission's error is dropped.
EmitZsh_Unchecked ==
  /\ pc = "zsh"
  /\ \E outcome \in EmitOutcomes : GenerateToUnchecked(Zsh, "powershell", outcome)

\* build.rs:27  generate_to(Zsh, c.0, c.1, c.2)?;
EmitZsh ==
  /\ pc = "zsh"
  /\ \E outcome \in EmitOutcomes : GenerateTo(Zsh, "powershell", outcome)

\* Faulty variant: the PowerShell emission's error is dropped.
EmitPowerShell_Unchecked ==
  /\ pc = "powershell"
  /\ \E outcome \in EmitOutcomes :
       GenerateToUnchecked(PowerShell, "println", outcome)

\* build.rs:28  generate_to(PowerShell, c.0, c.1, c.2)?;
EmitPowerShell ==
  /\ pc = "powershell"
  /\ \E outcome \in EmitOutcomes : GenerateTo(PowerShell, "println", outcome)

\* Faulty variant: main returns Ok without printing the directive.
PrintRerunAndReturn_NoDirective ==
  /\ pc = "println"
  /\ trace' = Append(trace, <<"println">>)
  /\ result' = Ok
  /\ pc' = "done"
  /\ UNCHANGED <<env, o, c, stdout, written, fs, run, hist>>

\* build.rs:31-32  println!("cargo:rerun-if-changed=build.rs"); Ok(())
PrintRerunAndReturn ==
  /\ pc = "println"
  /\ stdout' = Append(stdout, RerunDirective)
  /\ trace' = Append(trace, <<"println">>)
  /\ result' = Ok
  /\ pc' = "done"
  /\ UNCHANGED <<env, o, c, written, fs, run, hist>>

\* The build runs the script again, in the same environment, on the file
\* system the earlier invocation left.
Rerun ==
  /\ pc = "done"
  /\ run < MaxRuns
  /\ hist' = Append(hist, [result |-> result, fs |-> fs, written |-> written,
                           trace |-> trace, stdout |-> stdout])
  /\ run' = run + 1
  /\ pc' = "generate_cargo_keys"
  /\ result' = Running
  /\ o' = None
  /\ c' = None
  /\ stdout' = <<>>
  /\ trace' = <<>>
  /\ written' = <<>>
  /\ UNCHANGED <<env, fs>>

Next ==
  \/ GenerateCargoKeys
  \/ ReadProfile
  \/ ReadOutDir
  \/ BuildCli
  \/ EmitBash
  \/ EmitZsh
  \/ EmitPowerShell
  \/ PrintRerunAndReturn
  \/ Rerun

Spec == Init /\ [][Next]_vars

(* ------------------------ observations of a run ------------------------ *)

Done == pc = "done"
IsRelease == profile = OkVar("release")

\* The generate_to calls of this invocation, in order.
Emits == SelectSeq(trace, LAMBDA e : e[1] = "generate_to")
NoEmitFailure == \A i \in 1..Len(Emits) : Emits[i][3]
CliBuilt == Count(trace, <<"build_cli">>)
ResolverCalls == Count(trace, <<"generate_cargo_keys">>)
VersionKeys == SelectSeq(stdout, LAMBDA l : l[1] = "cargo:rustc-env=DEMON_VERSION")
RerunLines == Count(stdout, RerunDirective)
MainPrintlns == Count(trace, <<"println">>)
ResolverDirectives ==
  IF pc = "generate_cargo_keys" THEN 0
  ELSE Count(generate_cargo_keys(declared, repo), RerunDirective)
EmitsOf(t) == SelectSeq(t, LAMBDA e : e[1] = "generate_to")
CalledIn(t) == {EmitsOf(t)[k][2] : k \in 1..Len(EmitsOf(t))}
SucceededIn(t) ==
  {EmitsOf(t)[k][2] : k \in {n \in 1..Len(EmitsOf(t)) : EmitsOf(t)[n][3]}}
PathOf(g) == <<out_dir[2], file_name(g, "shed")>>
ExpectedPath(i) == <<out_dir[2], file_name(Dialects[i], "shed")>>

(* ------------------------------- claims -------------------------------- *)

\* C1 (as stated): every terminated run has written 0 or 3 completion
\* files, never 1 or 2, and it is 3 exactly when PROFILE equals "release".
C1_Original ==
  Done => /\ Len(written) \in {0, 3}
          /\ Len(written) = 3 <=> IsRelease

\* C1 (amended): a run that ends in success has written 0 or 3 completion
\* files, 3 exactly when PROFILE equals "release"; a run that ends in failure
\* has written 0, 1 or 2; no file is written unless PROFILE equals "release".
C1_Amended ==
  Done => /\ result = Ok => /\ Len(written) \in {0, 3}
                            /\ Len(written) = 3 <=> IsRelease
          /\ result # Ok => Len(written) \in {0, 1, 2}
          /\ Len(written) > 0 => IsRelease

C1_Witness ==
  Done /\ IsRelease /\ result = Err("Emission") /\ Len(written) = 1

\* C2: a release run with OUT_DIR set and no emitter failing ends in success
\* with exactly three files in OUT_DIR, one per generator in the order Bash,
\* Zsh, PowerShell, under pairwise distinct names; with PROFILE present and
\* any other string (also one differing only in case) the emitter is never
\* called, no file is written and the run ends in success.
C2_Completeness ==
  /\ (Done /\ IsRelease /\ out_dir # None /\ NoEmitFailure) =>
       /\ result = Ok
       /\ Len(written) = 3
       /\ \A i \in 1..3 : written[i] = ExpectedPath(i) /\ written[i] \in DOMAIN fs
       /\ \A i, j \in 1..3 : i # j => written[i][2] # written[j][2]
  /\ (profile[1] = "Ok" /\ profile[2] # "release") =>
       /\ Emits = <<>>
       /\ written = <<>>
       /\ Done => result = Ok

C2_Witness ==
  /\ Done /\ IsRelease /\ result = Ok
  /\ written = <<ExpectedPath(1), ExpectedPath(2), ExpectedPath(3)>>

\* C3: with PROFILE "release" and OUT_DIR unset the run ends with an
\* Environment error returned as main's result, no file written and no
\* emitter called.
C3_Claim ==
  (Done /\ IsRelease /\ out_dir = None) =>
    /\ result = Err("Environment")
    /\ written = <<>>
    /\ Emits = <<>>

\* C4: with PROFILE absent the run ends with an Environment error, the CLI
\* description is never built, no emitter is called and no file is written.
C4_MissingProfile ==
  profile = NotPresent =>
    /\ CliBuilt = 0 /\ c = None
    /\ Emits = <<>>
    /\ written = <<>>
    /\ pc \in {"generate_cargo_keys", "profile", "done"}
    /\ Done => result = Err("Environment")

C4_Witness ==
  profile = NotPresent /\ Done /\ result = Err("Environment") /\ DOMAIN fs = {}

\* C5: a release run that terminates with fewer than three files written
\* does not report success; a release run that reports success has written
\* all three.
C5_NoPartialSuccess ==
  IsRelease =>
    /\ (Done /\ Len(written) < 3) => result # Ok
    /\ result = Ok => Len(written) = 3

C5_Witness ==
  Done /\ IsRelease /\ Len(written) = 2 /\ result = Err("Emission")

\* C6: the version resolver is called exactly once in every run, as the
\* first step and before PROFILE is read, so every run, failing ones
\* included, produces exactly one DEMON_VERSION key.
C6_OneVersionKey ==
  /\ trace # <<>> => trace[1] = <<"generate_cargo_keys">>
  /\ ResolverCalls = (IF pc = "generate_cargo_keys" THEN 0 ELSE 1)
  /\ Len(VersionKeys) = ResolverCalls
  /\ Done => Len(VersionKeys) = 1
  /\ \A i \in 1..Len(hist) :
       Len(SelectSeq(hist[i].stdout,
                     LAMBDA l : l[1] = "cargo:rustc-env=DEMON_VERSION")) = 1

C6_Witness ==
  /\ Done /\ result = Panic /\ Len(VersionKeys) = 1
  /\ trace = <<<<"generate_cargo_keys">>, <<"var", "PROFILE">>,
               <<"var_os", "OUT_DIR">>>>

\* C7: when no repository is found or a lookup step fails, the version key
\* is the declared version unchanged, main goes on to read PROFILE, and no
\* run ever ends with an error of the version resolver.
C7_ResolverNeverFails ==
  /\ result # Err("VersionResolution")
  /\ trace = <<<<"generate_cargo_keys">>>> => pc = "profile" /\ result = Running
  /\ (repo.kind \in {"none", "failed"} /\ pc # "generate_cargo_keys") =>
       /\ VersionKeys = <<<<"cargo:rustc-env=DEMON_VERSION", declared>>>>
       /\ Count(trace, <<"var", "PROFILE">>) = (IF pc = "profile" THEN 0 ELSE 1)

C7_Witness ==
  /\ repo.kind = "failed" /\ Done /\ result = Ok
  /\ stdout[1] = <<"cargo:rustc-env=DEMON_VERSION", declared>>

C9_FixedOrderFirstFailure ==
  /\ CliBuilt <= 1
  /\ (Emits # <<>> \/ pc \in {"bash", "zsh", "powershell"}) => CliBuilt = 1
  /\ Len(Emits) <= 3
  /\ \A i \in 1..Len(Emits) :
       /\ Emits[i][2] = Dialects[i]
       /\ i < Len(Emits) => Emits[i][3]
  /\ (Emits # <<>> /\ ~Emits[Len(Emits)][3]) =>
       Done /\ result = Err("Emission")
  /\ result = Err("Emission") => (Emits # <<>> /\ ~Emits[Len(Emits)][3])
  /\ Len(written) = Cardinality({i \in 1..Len(Emits) : Emits[i][3]})
  /\ \A i \in 1..Len(written) : written[i] = ExpectedPath(i)

C9_Witness ==
  /\ Done /\ result = Err("Emission") /\ CliBuilt = 1
  /\ Emits = <<<<"generate_to", Bash, TRUE>>, <<"generate_to", Zsh, FALSE>>>>

\* C10 (as stated): the directive cargo:rerun-if-changed=build.rs is
\* printed exactly once in every run that ends in success, as the last step,
\* after the version key and the emissions; a run that fails never prints it.
C10_Original ==
  /\ result = Ok =>
       /\ Done
       /\ RerunLines = 1
       /\ stdout[Len(stdout)] = RerunDirective
       /\ trace[Len(trace)] = <<"println">>
       /\ Len(VersionKeys) = 1
       /\ IsRelease => Len(Emits) = 3
  /\ (Done /\ result # Ok) => RerunLines = 0

\* C10 (amended): main's own println of the directive runs exactly once in
\* every run that ends in success, as the last step, after the version key
\* and the emissions, and never in a run that fails; the only other print of
\* the directive is the resolver's, in the first step, so the output of a
\* successful run holds it twice and that of a failed run once.
C10_Amended ==
  /\ MainPrintlns = (IF result = Ok THEN 1 ELSE 0)
  /\ RerunLines = ResolverDirectives + MainPrintlns
  /\ result = Ok =>
       /\ Done
       /\ stdout[Len(stdout)] = RerunDirective
       /\ trace[Len(trace)] = <<"println">>
       /\ Len(VersionKeys) = 1
       /\ IsRelease => Len(Emits) = 3

C10_Witness ==
  /\ Done /\ result = Ok /\ IsRelease /\ Len(Emits) = 3
  /\ stdout = generate_cargo_keys(declared, repo) \o <<RerunDirective>>
  /\ RerunLines = 2

====
